---- MODULE Spec2Model ----
(***************************************************************************)
(* Model of the supply-chain ingestion pipeline (ingest.py) and of the     *)
(* audit queries (server.py).                                              *)
(*                                                                         *)
(* The CSV file is text: a header of raw column labels and lines of text   *)
(* fields.  Labels and column names are sequences of characters so that    *)
(* clean_column_names is computed character by character.  The SQLite      *)
(* store holds at most one table 'orders' and at most one index            *)
(* 'idx_region'.  Every SQL statement the loader issues is one step, since *)
(* each is committed on its own and a reader on another connection may run *)
(* between any two of them.                                                *)
(***************************************************************************)
EXTENDS Integers, Sequences, FiniteSets, TLC

\* Largest number of data lines of a CSV file.
MaxRows == 2

(***************************************************************************)
(* Strings                                                                 *)
(***************************************************************************)
UpperCase ==
    <<"A","B","C","D","E","F","G","H","I","J","K","L","M","N","O","P","Q","R","S","T","U","V","W","X","Y","Z">>
LowerCase ==
    <<"a","b","c","d","e","f","g","h","i","j","k","l","m","n","o","p","q","r","s","t","u","v","w","x","y","z">>

\* str.lower() on one character.
lower(c) ==
    IF \E i \in 1..26 : UpperCase[i] = c
    THEN LowerCase[CHOOSE i \in 1..26 : UpperCase[i] = c]
    ELSE c

\* c.lower().replace(' ', '_').replace('(', '').replace(')', '')
RECURSIVE CleanLabel(_)
CleanLabel(s) ==
    IF s = <<>> THEN <<>>
    ELSE LET c == lower(Head(s))
             rest == CleanLabel(Tail(s))
         IN  IF c \in {"(", ")"} THEN rest
             ELSE IF c = " " THEN <<"_">> \o rest
             ELSE <<c>> \o rest

\* df.columns = [... for c in df.columns]: same count, same order.
clean_column_names(columns) ==
    [i \in 1..Len(columns) |-> CleanLabel(columns[i])]

\* The column names the code refers to.
order_region ==
    <<"o","r","d","e","r","_","r","e","g","i","o","n">>
category_name ==
    <<"c","a","t","e","g","o","r","y","_","n","a","m","e">>
days_for_shipping_real ==
    <<"d","a","y","s","_","f","o","r","_","s","h","i","p","p","i","n","g","_","r","e","a","l">>
days_for_shipment_scheduled ==
    <<"d","a","y","s","_","f","o","r","_","s","h","i","p","m","e","n","t","_","s","c","h","e","d","u","l","e","d">>
late_delivery_risk ==
    <<"l","a","t","e","_","d","e","l","i","v","e","r","y","_","r","i","s","k">>
lead_time_variance ==
    <<"l","e","a","d","_","t","i","m","e","_","v","a","r","i","a","n","c","e">>

(***************************************************************************)
(* The CSV files the loader may find at CSV_FILE                           *)
(***************************************************************************)
RawOrderRegion ==
    <<"O","r","d","e","r"," ","R","e","g","i","o","n">>
RawOrderRegionAlt ==
    <<"o","r","d","e","r","_","r","e","g","i","o","n">>
RawCategoryName ==
    <<"C","a","t","e","g","o","r","y"," ","N","a","m","e">>
RawShippingReal ==
    <<"D","a","y","s"," ","f","o","r"," ","s","h","i","p","p","i","n","g"," ","(","r","e","a","l",")">>
RawShipmentScheduled ==
    <<"D","a","y","s"," ","f","o","r"," ","s","h","i","p","m","e","n","t"," ","(","s","c","h","e","d","u","l","e","d",")">>
RawLateDeliveryRisk ==
    <<"L","a","t","e","_","d","e","l","i","v","e","r","y","_","r","i","s","k">>

\* The dataset's header, and headers lacking a column or repeating one
\* under a second spelling.
HeaderFull ==
    <<RawOrderRegion, RawCategoryName, RawShippingReal, RawShipmentScheduled, RawLateDeliveryRisk>>
HeaderNoReal ==
    <<RawOrderRegion, RawCategoryName, RawShipmentScheduled, RawLateDeliveryRisk>>
HeaderOnlyReal ==
    <<RawOrderRegion, RawCategoryName, RawShippingReal, RawLateDeliveryRisk>>
HeaderNoRegion ==
    <<RawCategoryName, RawShippingReal, RawShipmentScheduled, RawLateDeliveryRisk>>
HeaderCollide ==
    <<RawOrderRegion, RawOrderRegionAlt, RawCategoryName, RawShippingReal, RawShipmentScheduled, RawLateDeliveryRisk>>
Headers ==
    {HeaderFull, HeaderNoReal, HeaderOnlyReal, HeaderNoRegion, HeaderCollide}

\* Two order lines, as the text of their fields ("" is an empty field).
Order1 ==
    [region |-> "West", category |-> "A", real |-> "5", scheduled |-> "3", late |-> "1"]
Order2 ==
    [region |-> "East", category |-> "B", real |-> "", scheduled |-> "2", late |-> "0"]
Orders ==
    {Order1, Order2}

FieldOf(order, raw) ==
    CASE raw \in {RawOrderRegion, RawOrderRegionAlt} -> order.region
      [] raw = RawCategoryName -> order.category
      [] raw = RawShippingReal -> order.real
      [] raw = RawShipmentScheduled -> order.scheduled
      [] OTHER -> order.late

LineOf(order, header) ==
    [i \in 1..Len(header) |-> FieldOf(order, header[i])]

\* A line with one field more than the header has.
LongLine(header) ==
    LineOf(Order1, header) \o <<"x">>

\* Files under the dataset's header hold any lines; files under the other
\* headers hold well-formed lines, and those whose load stops at the first
\* chunk whatever the lines are hold copies of one line.
LinesFor(header) ==
    CASE header = HeaderFull -> {LineOf(o, header) : o \in Orders} \cup {LongLine(header)}
      [] header \in {HeaderNoReal, HeaderNoRegion} -> {LineOf(o, header) : o \in Orders}
      [] OTHER -> {LineOf(Order1, header)}

SeqsUpTo(S, n) ==
    UNION {[1..k -> S] : k \in 0..n}

\* The files: a header and up to MaxRows lines.  The first data line has the
\* header's width (read_csv takes the fields of a longer first line as an
\* index column, which no file of the model has).
Sources ==
    UNION {{[header |-> h, lines |-> ls] :
              ls \in {x \in SeqsUpTo(LinesFor(h), MaxRows) :
                         Len(x) >= 1 => Len(x[1]) = Len(h)}} : h \in Headers}

NoSource ==
    [header |-> <<>>, lines |-> <<>>]

\* chunksize=...: one value for the whole run of the program.  The code fixes
\* 20000; the model reads one line at a time or the whole file at once.
ChunkSizes ==
    {1, MaxRows}

(***************************************************************************)
(* pandas: read_csv(chunksize=...), DataFrame                              *)
(***************************************************************************)
NaN == [k |-> "null"]
Num(i) == [k |-> "num", i |-> i]
Text(s) == [k |-> "text", s |-> s]

Digits ==
    {"0", "1", "2", "3", "4", "5"}
ToInt(s) ==
    CASE s = "0" -> 0 [] s = "1" -> 1 [] s = "2" -> 2
      [] s = "3" -> 3 [] s = "4" -> 4 [] OTHER -> 5

NoChunk ==
    [columns |-> <<>>, data |-> <<>>]

Min(a, b) == IF a < b THEN a ELSE b

\* The lines of the chunk read at position pos.
ChunkLines(src, pos, size) ==
    SubSeq(src.lines, pos + 1, Min(pos + size, Len(src.lines)))

\* A column of a chunk is numeric when each of its fields is empty or a number;
\* the type is inferred per chunk.
ColumnIsNumeric(lines, j) ==
    \A i \in 1..Len(lines) : lines[i][j] \in Digits \cup {""}

ParseField(s, numeric) ==
    IF s = "" THEN NaN ELSE IF numeric THEN Num(ToInt(s)) ELSE Text(s)

\* next(chunk_iter).  The first read of a file without data lines gives an
\* empty frame with the header's columns; a read past the end stops the
\* iteration; a line with more fields than the lines before it is a
\* ParserError, raised by the read of the chunk that holds it.
read_csv(src, pos, size, first) ==
    LET lines == ChunkLines(src, pos, size)
        w == Len(src.header)
    IN  IF pos >= Len(src.lines) /\ ~first
        THEN [status |-> "StopIteration", frame |-> NoChunk]
        ELSE IF \E i \in 1..Len(lines) : Len(lines[i]) > w
        THEN [status |-> "ParserError", frame |-> NoChunk]
        ELSE [status |-> "ok",
              frame |-> [columns |-> src.header,
                         data |-> [i \in 1..Len(lines) |->
                                     [j \in 1..w |->
                                        ParseField(lines[i][j], ColumnIsNumeric(lines, j))]]]]

Range(s) == {s[i] : i \in 1..Len(s)}

\* The first position of a column name.
ColIndex(columns, name) ==
    CHOOSE i \in 1..Len(columns) :
        columns[i] = name /\ \A j \in 1..(i - 1) : columns[j] # name

Minus(a, b) ==
    IF a.k = "num" /\ b.k = "num" THEN Num(a.i - b.i) ELSE NaN

\* The guard of line 31.
DeriveGuard(columns) ==
    days_for_shipping_real \in Range(columns)

\* Lines 31-32: the subscript of line 32 raises KeyError when the scheduled
\* column is absent.
Derive(frame) ==
    IF ~DeriveGuard(frame.columns)
    THEN [status |-> "ok", frame |-> frame]
    ELSE IF days_for_shipment_scheduled \notin Range(frame.columns)
    THEN [status |-> "KeyError", frame |-> NoChunk]
    ELSE LET r == ColIndex(frame.columns, days_for_shipping_real)
             s == ColIndex(frame.columns, days_for_shipment_scheduled)
         IN  [status |-> "ok",
              frame |-> [columns |-> Append(frame.columns, lead_time_variance),
                         data |-> [i \in 1..Len(frame.data) |->
                                     Append(frame.data[i],
                                            Minus(frame.data[i][r], frame.data[i][s]))]]]

(***************************************************************************)
(* SQLite: the table 'orders' and the index 'idx_region'                   *)
(***************************************************************************)
NoTable ==
    [exists |-> FALSE, cols |-> <<>>, rows |-> <<>>, index |-> FALSE]

\* A DROP TABLE that left idx_region behind.
DropTableKeepsIndex(d) ==
    [NoTable EXCEPT !.index = d.index]

\* DROP TABLE orders: the table's indexes go with it.
DropTable(d) ==
    NoTable

HasDuplicates(columns) ==
    \E i, j \in 1..Len(columns) : i < j /\ columns[i] = columns[j]

\* CREATE TABLE orders (...): fails on a duplicate column name.
CreateTable(d, columns) ==
    [exists |-> TRUE, cols |-> columns, rows |-> <<>>, index |-> d.index]

\* INSERT INTO orders (<frame columns>) VALUES ...: the frame's columns must
\* be columns of the table; a column the frame lacks is NULL.
InsertOk(d, frame) ==
    Range(frame.columns) \subseteq Range(d.cols)

InsertRows(d, frame) ==
    [d EXCEPT !.rows = @ \o
        [i \in 1..Len(frame.data) |->
            [j \in 1..Len(d.cols) |->
                IF d.cols[j] \in Range(frame.columns)
                THEN frame.data[i][ColIndex(frame.columns, d.cols[j])]
                ELSE NaN]]]

\* CREATE INDEX idx_region ON orders(order_region)
CreateIndexOk(d) ==
    d.exists /\ order_region \in Range(d.cols) /\ ~d.index

CreateIndex(d) ==
    [d EXCEPT !.index = TRUE]

\* Both to_sql calls appending.
if_exists_append(first) ==
    "append"

\* The if_exists argument of the two to_sql calls.
if_exists(first) ==
    IF first THEN "replace" ELSE "append"

\* SQLiteTable.create(): where to_sql starts, by if_exists and whether the
\* table exists.
ToSqlEntry(mode, exists) ==
    IF ~exists THEN "create"
    ELSE IF mode = "replace" THEN "drop"
    ELSE "insert"

(***************************************************************************)
(* server.py: the three queries                                            *)
(***************************************************************************)
\* The statement cannot be prepared: no table 'orders', or no such column.
Exception(what) ==
    [kind |-> "exception", what |-> what]

HasCols(d, names) ==
    d.exists /\ names \subseteq Range(d.cols)

Cell(d, i, name) ==
    d.rows[i][ColIndex(d.cols, name)]

\* WHERE order_region = ?  (NULL equals nothing)
Matching(d, region) ==
    {i \in 1..Len(d.rows) : Cell(d, i, order_region) = Text(region)}

\* The rows of S whose column holds a number: AVG skips NULL.
NonNull(d, S, name) ==
    {i \in S : Cell(d, i, name).k = "num"}

RECURSIVE SumCells(_, _, _)
SumCells(d, S, name) ==
    IF S = {} THEN 0
    ELSE LET i == CHOOSE x \in S : TRUE
         IN  Cell(d, i, name).i + SumCells(d, S \ {i}, name)

\* a / b rounded to the nearest integer, ties to even: the rounding of
\* format specs .2f and .1f (on a scaled by 100 and by 10).
RoundDiv(a, b) ==
    LET q == a \div b
        r == a % b
    IN  IF 2 * r < b THEN q
        ELSE IF 2 * r > b THEN q + 1
        ELSE IF q % 2 = 0 THEN q ELSE q + 1

\* audit_region_risk: avg_delay in hundredths of a day, risk_percent in
\* tenths of a percent, as the returned text prints them.  Formatting the
\* NULL average of a region without any variance value raises TypeError.
audit_region_risk(d, region) ==
    IF ~HasCols(d, {lead_time_variance, late_delivery_risk, order_region})
    THEN Exception("OperationalError")
    ELSE LET m == Matching(d, region)
             total == Cardinality(m)
             v == NonNull(d, m, lead_time_variance)
             late == {i \in m : Cell(d, i, late_delivery_risk) = Num(1)}
         IN  IF total = 0 THEN [kind |-> "nodata"]
             ELSE IF v = {} THEN Exception("TypeError")
             ELSE [kind |-> "audit",
                   total_orders |-> total,
                   avg_delay |-> RoundDiv(100 * SumCells(d, v, lead_time_variance), Cardinality(v)),
                   risk_percent |-> RoundDiv(1000 * Cardinality(late), total)]

\* LIMIT 5
ChartLimit == 5

RECURSIVE Gcd(_, _)
Gcd(a, b) ==
    IF b = 0 THEN a ELSE Gcd(b, a % b)

Abs(a) == IF a < 0 THEN -a ELSE a

\* AVG(lead_time_variance) of a group, as a fraction in lowest terms; NULL
\* when no row of the group has a value.
GroupAvg(d, S) ==
    LET v == NonNull(d, S, lead_time_variance)
        n == SumCells(d, v, lead_time_variance)
        c == Cardinality(v)
        g == Gcd(Abs(n), c)
    IN  IF v = {} THEN [k |-> "null"]
        ELSE [k |-> "avg", n |-> n \div g, d |-> c \div g]

\* ORDER BY delay DESC: NULL sorts below every number.
Greater(x, y) ==
    /\ x.k = "avg"
    /\ y.k = "avg" => x.n * y.d > y.n * x.d

\* The order of text values (BINARY collation) among those of the model.
TextOrder ==
    <<"A", "B", "East", "West">>
TextRank(cell) ==
    IF cell.k = "null" THEN 0
    ELSE CHOOSE i \in 1..Len(TextOrder) : TextOrder[i] = cell.s

\* Groups come out of GROUP BY in the order of their key, and rows of equal
\* delay keep that order.
RECURSIVE SortGroups(_)
SortGroups(G) ==
    IF G = {} THEN <<>>
    ELSE LET g == CHOOSE x \in G : \A y \in G \ {x} :
                      \/ Greater(x.delay, y.delay)
                      \/ ~Greater(y.delay, x.delay) /\ TextRank(x.category) < TextRank(y.category)
         IN  <<g>> \o SortGroups(G \ {g})

\* generate_risk_chart, lines 56-68: the query and the empty-result return;
\* the rows go to the chart.
generate_risk_chart(d, region) ==
    IF ~HasCols(d, {category_name, lead_time_variance, order_region})
    THEN Exception("OperationalError")
    ELSE LET m == Matching(d, region)
             keys == {Cell(d, i, category_name) : i \in m}
             groups == {[category |-> c,
                         delay |-> GroupAvg(d, {i \in m : Cell(d, i, category_name) = c})] :
                        c \in keys}
             sorted == SortGroups(groups)
             rows == SubSeq(sorted, 1, Min(ChartLimit, Len(sorted)))
         IN  IF rows = <<>> THEN [kind |-> "nochart"]
             ELSE [kind |-> "chart", rows |-> rows]

RECURSIVE SortTexts(_)
SortTexts(S) ==
    IF S = {} THEN <<>>
    ELSE LET c == CHOOSE x \in S : \A y \in S : TextRank(x) <= TextRank(y)
         IN  <<c.s>> \o SortTexts(S \ {c})

\* list_available_regions: ", ".join raises TypeError on a NULL region.
list_available_regions(d) ==
    IF ~HasCols(d, {order_region})
    THEN Exception("OperationalError")
    ELSE LET vals == {Cell(d, i, order_region) : i \in 1..Len(d.rows)}
         IN  IF \E c \in vals : c.k # "text" THEN Exception("TypeError")
             ELSE [kind |-> "regions", regions |-> SortTexts(vals)]

\* The region arguments of the callers; no order is from "North".
Regions ==
    {"West", "East", "North"}

QueryArgs ==
    {[op |-> o, region |-> r] : o \in {"audit", "chart"}, r \in Regions}
        \cup {[op |-> "list", region |-> ""]}

RunQuery(q, d) ==
    CASE q.op = "audit" -> audit_region_risk(d, q.region)
      [] q.op = "chart" -> generate_risk_chart(d, q.region)
      [] OTHER -> list_available_regions(d)

AllQueries(d) ==
    [q \in QueryArgs |-> RunQuery(q, d)]

(***************************************************************************)
(* State                                                                   *)
(***************************************************************************)
VARIABLES
    csv_exists,   \* os.path.exists(CSV_FILE), as the last call found it
    csv,          \* the file the last call found
    chunksize,    \* the chunksize of read_csv
    db,           \* the store
    pc,           \* where ingest_data is
    first_chunk,  \* the loader's flag
    pos,          \* data lines read so far
    chunk,        \* the frame being written
    outcome,      \* how the last call of ingest_data ended
    conns,        \* connections the last call opened
    pre,          \* the store when the last call started
    prevOk,       \* the call before the last one completed its load
    sameSrc,      \* the last call found the file of the call before it
    commits,      \* to_sql calls the last call completed
    indexBuilds,  \* indexes the last call created
    obs           \* the last query since the last call started, and its result

vars ==
    <<csv_exists, csv, chunksize, db, pc, first_chunk, pos, chunk, outcome,
      conns, pre, prevOk, sameSrc, commits, indexBuilds, obs>>

NoObs ==
    [op |-> "none", region |-> "", result |-> [kind |-> "none"]]

Init ==
    /\ csv_exists = FALSE
    /\ csv = NoSource
    /\ chunksize \in ChunkSizes
    /\ db = NoTable
    /\ pc = "idle"
    /\ first_chunk = TRUE
    /\ pos = 0
    /\ chunk = NoChunk
    /\ outcome = "none"
    /\ conns = 0
    /\ pre = NoTable
    /\ prevOk = FALSE
    /\ sameSrc = FALSE
    /\ commits = 0
    /\ indexBuilds = 0
    /\ obs = NoObs

(***************************************************************************)
(* ingest_data                                                             *)
(***************************************************************************)
\* The connection of line 20 opened before the test of line 15.
SourceNotFoundAfterConnect(d) ==
    [db |-> d, conns |-> 1, outcome |-> "SourceNotFound"]

\* Lines 15-17: what the call leaves when the file is missing.
SourceNotFound(d) ==
    [db |-> d, conns |-> 0, outcome |-> "SourceNotFound"]

\* An uncaught exception ends the call.
Raise(what) ==
    /\ outcome' = what
    /\ pc' = "idle"
    /\ chunk' = NoChunk

\* ingest_data() is called and CSV_FILE does not exist.
IngestMissing ==
    /\ pc = "idle"
    /\ LET r == SourceNotFound(db)
       IN  /\ db' = r.db
           /\ conns' = r.conns
           /\ outcome' = r.outcome
    /\ csv_exists' = FALSE
    /\ csv' = NoSource
    /\ pre' = db
    /\ prevOk' = (outcome = "ok")
    /\ sameSrc' = FALSE
    /\ commits' = 0
    /\ indexBuilds' = 0
    /\ first_chunk' = TRUE
    /\ pos' = 0
    /\ chunk' = NoChunk
    /\ obs' = NoObs
    /\ UNCHANGED <<chunksize, pc>>

\* ingest_data() is called and finds the file src: it connects and opens
\* the chunk iterator.
IngestStart(src) ==
    /\ pc = "idle"
    /\ csv_exists' = TRUE
    /\ csv' = src
    /\ conns' = 1
    /\ pre' = db
    /\ prevOk' = (outcome = "ok")
    /\ sameSrc' = (csv_exists /\ src = csv)
    /\ commits' = 0
    /\ indexBuilds' = 0
    /\ first_chunk' = TRUE
    /\ pos' = 0
    /\ chunk' = NoChunk
    /\ outcome' = "running"
    /\ pc' = "iter"
    /\ obs' = NoObs
    /\ UNCHANGED <<chunksize, db>>

\* Lines 26-32: the next chunk is read, its columns are renamed and the
\* derived column is added; or the iteration is over.
NextChunk ==
    /\ pc = "iter"
    /\ LET r == read_csv(csv, pos, chunksize, first_chunk)
           f == [r.frame EXCEPT !.columns = clean_column_names(@)]
           g == Derive(f)
       IN  CASE r.status = "StopIteration" ->
                  /\ pc' = "index"
                  /\ UNCHANGED <<chunk, outcome, pos>>
             [] r.status = "ParserError" ->
                  /\ Raise("ParserError")
                  /\ UNCHANGED pos
             [] r.status = "ok" /\ g.status = "KeyError" ->
                  /\ Raise("KeyError")
                  /\ UNCHANGED pos
             [] OTHER ->
                  /\ chunk' = g.frame
                  /\ pos' = pos + Len(g.frame.data)
                  /\ pc' = ToSqlEntry(if_exists(first_chunk), db.exists)
                  /\ UNCHANGED outcome
    /\ UNCHANGED <<csv_exists, csv, chunksize, db, first_chunk, conns, pre,
                   prevOk, sameSrc, commits, indexBuilds, obs>>

\* to_sql(if_exists='replace') on an existing table: DROP TABLE.
ToSqlDrop ==
    /\ pc = "drop"
    /\ db' = DropTable(db)
    /\ pc' = "create"
    /\ UNCHANGED <<csv_exists, csv, chunksize, first_chunk, pos, chunk, outcome,
                   conns, pre, prevOk, sameSrc, commits, indexBuilds, obs>>

\* to_sql: CREATE TABLE.
ToSqlCreate ==
    /\ pc = "create"
    /\ IF HasDuplicates(chunk.columns)
       THEN /\ Raise("OperationalError")
            /\ UNCHANGED db
       ELSE /\ db' = CreateTable(db, chunk.columns)
            /\ pc' = "insert"
            /\ UNCHANGED <<chunk, outcome>>
    /\ UNCHANGED <<csv_exists, csv, chunksize, first_chunk, pos,
                   conns, pre, prevOk, sameSrc, commits, indexBuilds, obs>>

\* to_sql: the chunk's rows are inserted and committed; lines 37-40.
ToSqlInsert ==
    /\ pc = "insert"
    /\ IF ~InsertOk(db, chunk)
       THEN /\ Raise("OperationalError")
            /\ UNCHANGED <<db, commits, first_chunk>>
       ELSE /\ db' = InsertRows(db, chunk)
            /\ commits' = commits + 1
            /\ first_chunk' = FALSE
            /\ chunk' = NoChunk
            /\ pc' = "iter"
            /\ UNCHANGED outcome
    /\ UNCHANGED <<csv_exists, csv, chunksize, pos, conns, pre, prevOk,
                   sameSrc, indexBuilds, obs>>

\* Lines 43-45: the index is created and the call returns.
BuildIndex ==
    /\ pc = "index"
    /\ IF ~CreateIndexOk(db)
       THEN /\ Raise("OperationalError")
            /\ UNCHANGED <<db, indexBuilds>>
       ELSE /\ db' = CreateIndex(db)
            /\ indexBuilds' = indexBuilds + 1
            /\ outcome' = "ok"
            /\ pc' = "idle"
            /\ chunk' = NoChunk
    /\ UNCHANGED <<csv_exists, csv, chunksize, first_chunk, pos, conns, pre,
                   prevOk, sameSrc, commits, obs>>

\* A tool call of the server runs its query against the store as it is.
Query(q) ==
    /\ obs' = [op |-> q.op, region |-> q.region, result |-> RunQuery(q, db)]
    /\ UNCHANGED <<csv_exists, csv, chunksize, db, pc, first_chunk, pos, chunk,
                   outcome, conns, pre, prevOk, sameSrc, commits, indexBuilds>>

Next ==
    \/ IngestMissing
    \/ \E src \in Sources : IngestStart(src)
    \/ NextChunk
    \/ ToSqlDrop
    \/ ToSqlCreate
    \/ ToSqlInsert
    \/ BuildIndex

\* The loader alone.
Spec ==
    Init /\ [][Next]_vars

NextRW ==
    \/ Next
    \/ \E q \in QueryArgs : Query(q)

\* The loader and the server's readers.
SpecRW ==
    Init /\ [][NextRW]_vars

\* ingest_data run as one chunk from store d: lines 14-45 without a step
\* in between.
SingleBatchLoad(d, src) ==
    LET r == read_csv(src, 0, Len(src.lines), TRUE)
        g == Derive([r.frame EXCEPT !.columns = clean_column_names(@)])
        dropped == IF d.exists THEN DropTable(d) ELSE d
    IN  IF r.status # "ok" \/ g.status # "ok" THEN d
        ELSE IF HasDuplicates(g.frame.columns) THEN dropped
        ELSE LET t == InsertRows(CreateTable(dropped, g.frame.columns), g.frame)
             IN  IF CreateIndexOk(t) THEN CreateIndex(t) ELSE t

\* The chunks read_csv cuts a file into.
NumChunks(src, size) ==
    IF Len(src.lines) = 0 THEN 1 ELSE (Len(src.lines) + size - 1) \div size

(***************************************************************************)
(* Properties                                                              *)
(***************************************************************************)
\* The last call of ingest_data found the file and has ended.
Ended ==
    pc = "idle" /\ outcome \notin {"none", "SourceNotFound"}

\* Every chunk of the file has been written by the last call.
AllCommitted ==
    csv_exists /\ commits = NumChunks(csv, chunksize)

\* The store a load of src leaves when it completes.
LoadedStore(src) ==
    SingleBatchLoad(NoTable, src)

\* A load of src can complete.
Loadable(src) ==
    LoadedStore(src).index

Columns(src) ==
    Range(clean_column_names(src.header))

BothDayColumns(src) ==
    {days_for_shipping_real, days_for_shipment_scheduled} \subseteq Columns(src)

\* C1: a query that runs while a load is running, the load before it having
\* completed, runs against the complete store of that earlier load or against
\* the complete store (all rows and the index) of the running load.
C1_ReadersSeeWholeLoads ==
    [][(obs' # obs /\ pc # "idle" /\ prevOk) =>
          \/ db = pre
          \/ Loadable(csv) /\ db = LoadedStore(csv)]_vars

\* C2: when a chunk after the first cannot be read because a line has more
\* fields than the header, the load has aborted with the store as it was
\* before the load started.
C2_MismatchRestoresStore ==
    (pc = "idle" /\ outcome = "ParserError" /\ commits >= 1 /\ prevOk) => db = pre

\* C3: a call that finds no source file returns without having opened a
\* connection and leaves the store (table and index) as it was.
C3_MissingSourceTouchesNothing ==
    (~csv_exists /\ outcome # "none") =>
        /\ outcome = "SourceNotFound"
        /\ pc = "idle"
        /\ conns = 0
        /\ db = pre

C3_Witness ==
    /\ outcome = "SourceNotFound"
    /\ pre.exists /\ pre.index /\ Len(pre.rows) >= 1

\* C4: after a load in chunks of one line, whatever the file and the store
\* before, every query returns what it returns after a load of the same file
\* from the same store as one chunk.
C4_BatchingTransparent ==
    (pc = "idle" /\ outcome \notin {"none", "SourceNotFound"} /\ chunksize = 1) =>
        AllQueries(db) = AllQueries(SingleBatchLoad(pre, csv))

\* C4, for loads that read every chunk: the store after a load in chunks of
\* one line is the store after a load of the same file from the same store
\* as one chunk.
C4_TransparentWhenEveryChunkReads ==
    (pc = "idle" /\ outcome \notin {"none", "SourceNotFound", "ParserError"} /\ chunksize = 1) =>
        db = SingleBatchLoad(pre, csv)

\* C5: the store after a completed load is the one the file alone
\* determines, whatever the store held before; and a load of the file the
\* completed load before it read completes too and leaves the store as that
\* load left it.
C5_LoadDependsOnlyOnSource ==
    Ended =>
        /\ outcome = "ok" => db = LoadedStore(csv)
        /\ (sameSrc /\ prevOk) => (outcome = "ok" /\ db = pre)

C5_Witness ==
    /\ Ended /\ sameSrc /\ prevOk /\ outcome = "ok"
    /\ chunksize = 1 /\ Len(db.rows) >= 2 /\ db = pre

\* C6 as claimed: the index is built at most once per load and only after
\* the last chunk is committed, and every load that commits all its chunks
\* ends with the index built.
C6_IndexOncePerLoad ==
    /\ indexBuilds <= 1
    /\ indexBuilds = 1 => AllCommitted
    /\ (Ended /\ AllCommitted) => (indexBuilds = 1 /\ db.index)

\* C6 as amended: the index is built at most once per load and only after
\* the last chunk is committed; from the first CREATE TABLE of a load to its
\* index build the store has no index; a load that commits all its chunks
\* ends with the index built when the table has the column order_region, and
\* with an error and no index when it has not.
C6_IndexOnceWhenRegionPresent ==
    /\ indexBuilds <= 1
    /\ indexBuilds = 1 => (AllCommitted /\ pc = "idle" /\ outcome = "ok")
    /\ (pc \in {"create", "insert"} \/ (pc \in {"iter", "index"} /\ commits >= 1)) => ~db.index
    /\ (Ended /\ AllCommitted /\ order_region \in Range(db.cols)) =>
          (indexBuilds = 1 /\ db.index /\ outcome = "ok")
    /\ (Ended /\ AllCommitted /\ order_region \notin Range(db.cols)) =>
          (indexBuilds = 0 /\ ~db.index /\ outcome = "OperationalError")

C6_Witness ==
    /\ Ended /\ AllCommitted /\ commits = 2 /\ indexBuilds = 1
    /\ db.index /\ pre.index

\* C7: a load of a file lacking one of the two day columns is not stopped by
\* the derivation, and after a completed load the table has the column
\* lead_time_variance exactly when the file had both day columns.
C7_VarianceIffBothColumns ==
    Ended =>
        /\ ~BothDayColumns(csv) => outcome # "KeyError"
        /\ outcome = "ok" => (lead_time_variance \in Range(db.cols) <=> BothDayColumns(csv))

\* C8: when two labels of the header normalize to one name, nothing is
\* committed, the store stays as it was before the call, and the call ends
\* with an error.
C8_AmbiguousColumnLeavesStore ==
    (csv_exists /\ HasDuplicates(clean_column_names(csv.header))) =>
        /\ commits = 0
        /\ db = pre
        /\ pc = "idle" => outcome = "OperationalError"

\* A field of a line of the file, by normalized column name ("" when the
\* file has no such column).
SourceField(src, i, name) ==
    IF name \in Columns(src)
    THEN src.lines[i][ColIndex(clean_column_names(src.header), name)]
    ELSE ""

RECURSIVE SumDelays(_, _)
SumDelays(src, S) ==
    IF S = {} THEN 0
    ELSE LET i == CHOOSE x \in S : TRUE
         IN  ToInt(SourceField(src, i, days_for_shipping_real))
               - ToInt(SourceField(src, i, days_for_shipment_scheduled))
               + SumDelays(src, S \ {i})

\* The lines of the loaded file with the region, and those of them with
\* both day values.
Recs(region) ==
    {i \in 1..Len(csv.lines) : SourceField(csv, i, order_region) = region}
Timed(region) ==
    {i \in Recs(region) :
        /\ SourceField(csv, i, days_for_shipping_real) \in Digits
        /\ SourceField(csv, i, days_for_shipment_scheduled) \in Digits}

\* What audit_region_risk is to return for a region, from the file's lines.
AuditAsClaimed(region) ==
    LET recs == Recs(region)
        late == {i \in recs : SourceField(csv, i, late_delivery_risk) = "1"}
        a == audit_region_risk(db, region)
    IN  IF recs = {} THEN a.kind = "nodata"
        ELSE /\ a.kind = "audit"
             /\ a.total_orders = Cardinality(recs)
             /\ a.risk_percent = RoundDiv(1000 * Cardinality(late), Cardinality(recs))
             /\ Timed(region) # {} =>
                  a.avg_delay = RoundDiv(100 * SumDelays(csv, Timed(region)),
                                         Cardinality(Timed(region)))

\* C9: after a completed load, for every region, audit_region_risk returns
\* the no-data result when no record of the file has the region; otherwise
\* it reports the number of those records, 100 times the share of them with
\* late_delivery_risk = 1, and the mean of actual minus scheduled days over
\* those of them that have both values.
C9_AuditMatchesRecords ==
    (pc = "idle" /\ outcome = "ok") =>
        \A region \in Regions : AuditAsClaimed(region)

\* C9, for files with both day columns and regions that have no record or
\* a record with both day values: the result is the claimed one.
C9_AuditOfRegionsWithVariance ==
    (pc = "idle" /\ outcome = "ok" /\ BothDayColumns(csv)) =>
        \A region \in Regions :
            (Recs(region) = {} \/ Timed(region) # {}) => AuditAsClaimed(region)

\* C10: whenever ingest_data has been called and is not running, whatever
\* the way its calls ended, every query returns a result for every region.
C10_QueriesNeverRaise ==
    (pc = "idle" /\ outcome # "none") =>
        \A q \in QueryArgs : RunQuery(q, db).kind # "exception"

====
